---- MODULE Spec2Model ----
(***************************************************************************)
(* Model of the auto-dialer backend (backend/server.js): the balance of    *)
(* each account, the campaigns and contacts collections, the global        *)
(* From-Number blocklist, and the request handlers that change them.       *)
(*                                                                         *)
(* Money is counted in cents: CALL_COST = 0.05 is 5.  Every `await` on a   *)
(* store operation is one step of the model, so that two handlers          *)
(* interleave exactly where Node's event loop lets them; the synchronous   *)
(* code between two awaits belongs to the step of the store operation it   *)
(* leads to.  Store faults are injected from the debit onward (the         *)
(* operations at lines 206, 207 and 209), where the handler has state to   *)
(* lose; a fault throws into the catch of line 210.                        *)
(***************************************************************************)
EXTENDS Integers, Sequences, FiniteSets, TLC

\* ---------------------------------------------------------------- bounds
\* the most an account holds, in calls it pays for
MaxFunds == 2
\* the campaigns created
MaxCampaigns == 1
\* the dispatches stamped with new Date()
MaxClock == 2
\* the characters of a message
MaxTextLen == 3

\* ------------------------------------------------------ program constants
CALL_COST == 5
DefaultBatchSize == 5
MinCallsPerMinute == 1
MaxCallsPerMinute == 100
\* SPAM_THRESHOLD = 0.8, in tenths
SPAM_THRESHOLD == 8

MaxBalance == MaxFunds * CALL_COST

\* ------------------------------------------------------------ input sets
Users == {"u1", "u2"}
Callers == {"u1"}
Procs == {"r1", "r2"}
\* a JavaScript string is the sequence of its characters
Numbers == {<<"1">>}
\* the numbers admins block and unblock
BlockedNumbers == {<<"1">>, <<"2">>, <<"3">>}
\* a value of a URL segment or of a JSON body: numeric or not
Num(v) == [isNum |-> TRUE, val |-> v]
NotANumber == [isNum |-> FALSE, val |-> 0]
CountInputs == {NotANumber} \cup {Num(v) : v \in {-1, 0, 1, 2}}
AmountInputs == {NotANumber} \cup {Num(v) : v \in {-5, 0, 5, 10}}
CpmInputs == {0, 1, 2}
IsActiveInputs == {"absent", "true", "false"}
ContactInputs == {<<>>, <<"p1">>, <<"p1", "p2">>, <<"p1", "p1">>}
\* req.body.numbers of POST /admin/settings/blocklist
NumbersInputs == {<<>>, <<"1">>, <<" ", "1">>, <<"1", ",", "1">>,
                  <<"1", ",", " ", "2">>, <<",", " ">>}
\* the characters of a message and of a forbidden-word list
TextChars == {"a", "A", " ", "."}
WordChars == {"a", "A"}
Texts == UNION {[1..n -> TextChars] : n \in 0..MaxTextLen}
\* req.body.customBlocklist of POST /campaigns
CustomBlocklistInputs == {<<>>, <<"a">>, <<"A">>, <<"a", "a">>, <<"a", ".", "a">>,
                          <<" ", "a", ",", "a", " ", "a">>, <<",">>}
\* what the Perspective API call of lines 99-110 comes to
Attributes == {"SPAM", "TOXICITY", "THREAT"}
ScoreInputs == {8, 9}
Unconfigured == [kind |-> "unconfigured", scores |-> [a \in Attributes |-> 0]]
FetchThrows == [kind |-> "error", scores |-> [a \in Attributes |-> 0]]
NotOk == [kind |-> "non2xx", scores |-> [a \in Attributes |-> 0]]
Malformed == [kind |-> "malformed", scores |-> [a \in Attributes |-> 0]]
Scored(sc) == [kind |-> "scores", scores |-> sc]
ClassifierInputs == {Unconfigured, FetchThrows, NotOk, Malformed}
                        \cup {Scored(sc) : sc \in [Attributes -> ScoreInputs]}

VARIABLES
    balance,              \* User.balance of every account (cents)
    campaigns,            \* the Campaign collection, in insertion order
    contactDocs,          \* the Contact collection, in insertion order
    fromNumberBlocklist,  \* SystemSettings.fromNumberBlocklist
    now,                  \* the clock read by new Date()
    pc,                   \* where each next-contacts handler stands
    req,                  \* its request: caller, :id, :count
    userRead,             \* user.balance as read at line 200
    userMem,              \* user.balance of the in-memory document
    charged,              \* what the handler's user.save() took off
    found,                \* the contacts of line 207
    result,               \* the response sent
    last,                 \* the last response of an admin or a creation request
    asked,                \* the request it answered, and the blocklist it met
    edits,                \* the blocklist edits admins have in flight, by number
    initialBlocklist,     \* the blocklist before those edits
    moderation            \* a message under moderation and its verdict

vars == <<balance, campaigns, contactDocs, fromNumberBlocklist, now, pc, req,
          userRead, userMem, charged, found, result, last, asked, edits,
          initialBlocklist, moderation>>

store == <<balance, campaigns, contactDocs, fromNumberBlocklist>>
locals == <<pc, req, userRead, userMem, charged, found, result>>
\* the requests around the handlers: written by the steps that issue them
environment == <<asked, edits, initialBlocklist, moderation>>

\* --------------------------------------------------------------- helpers
NoReq == [user |-> "u1", id |-> 0, count |-> NotANumber]
NoResult == [kind |-> "none", contacts |-> <<>>, newBalance |-> 0]
Response(k, cs, nb) == [kind |-> k, contacts |-> cs, newBalance |-> nb]
NoAnswer == [route |-> "none", status |-> 0]
Answer(route, status) == [route |-> route, status |-> status]
NoQuestion == [body |-> <<>>, blocklist |-> <<>>]
NoModeration == [text |-> <<>>, customBlocklist |-> <<>>, classifier |-> Unconfigured,
                 verdict |-> "none"]

Abs(n) == IF n < 0 THEN -n ELSE n
Min(a, b) == IF a < b THEN a ELSE b

\* line 201: parseInt(req.params.count, 10) || 5   (NaN and 0 are falsy)
BatchSize(count) ==
    IF ~count.isNum \/ count.val = 0 THEN DefaultBatchSize ELSE count.val

\* line 202
RequiredBalance(count) == CALL_COST * BatchSize(count)

\* line 203: the guard of the insufficient-balance branch
InsufficientBalance(bal, required) == bal < required

\* line 203: Campaign.findByIdAndUpdate(id, { isActive: false })
PausedKeepsFlag(c) == c
Paused(c) == [c EXCEPT !.isActive = FALSE]

\* line 204: Campaign.findOne({ _id, user })
CampaignExists(id) == id \in 1..Len(campaigns)
FindOwned(id, u) == CampaignExists(id) /\ campaigns[id].user = u

\* line 207: Contact.find({ campaign, status: 'new' }).limit(batchSize);
\* a negative limit is sent as its absolute value
RECURSIVE NewContactsFrom(_, _)
NewContactsFrom(i, id) ==
    IF i > Len(contactDocs) THEN <<>>
    ELSE IF contactDocs[i].campaign = id /\ contactDocs[i].status = "new"
         THEN <<i>> \o NewContactsFrom(i + 1, id)
         ELSE NewContactsFrom(i + 1, id)
Limit(s, n) == SubSeq(s, 1, Min(Len(s), Abs(n)))
FindNewContacts(id, batchSize) == Limit(NewContactsFrom(1, id), batchSize)

Range(s) == {s[i] : i \in 1..Len(s)}

\* ---------------------------------------------------------------- strings
\* String.prototype.split(sep): the pieces between the separators
RECURSIVE Split(_, _)
Split(s, sep) ==
    IF \A i \in 1..Len(s) : s[i] # sep THEN <<s>>
    ELSE LET i == CHOOSE k \in 1..Len(s) :
                      s[k] = sep /\ \A j \in 1..(k - 1) : s[j] # sep
         IN <<SubSeq(s, 1, i - 1)>> \o Split(SubSeq(s, i + 1, Len(s)), sep)

\* String.prototype.trim(): without the white space at both ends
RECURSIVE Trim(_)
Trim(s) ==
    IF s = <<>> THEN s
    ELSE IF Head(s) = " " THEN Trim(Tail(s))
    ELSE IF s[Len(s)] = " " THEN Trim(SubSeq(s, 1, Len(s) - 1))
    ELSE s

\* String.prototype.toLowerCase()
LowerChar(c) == IF c = "A" THEN "a" ELSE c
ToLowerCase(s) == [i \in 1..Len(s) |-> LowerChar(s[i])]

\* .filter(n => n), .filter(Boolean): the empty string is falsy
Truthy(list) == SelectSeq(list, LAMBDA x : x # <<>>)

\* ------------------------------------------------------------------ Init
Init ==
    /\ balance = [u \in Users |-> 0]
    /\ campaigns = <<>>
    /\ contactDocs = <<>>
    /\ fromNumberBlocklist = <<>>
    /\ now = 0
    /\ pc = [p \in Procs |-> "idle"]
    /\ req = [p \in Procs |-> NoReq]
    /\ userRead = [p \in Procs |-> 0]
    /\ userMem = [p \in Procs |-> 0]
    /\ charged = [p \in Procs |-> 0]
    /\ found = [p \in Procs |-> <<>>]
    /\ result = [p \in Procs |-> NoResult]
    /\ last = NoAnswer
    /\ asked = NoQuestion
    /\ edits = [n \in BlockedNumbers |-> "none"]
    /\ initialBlocklist = <<>>
    /\ moderation = NoModeration


\* -------------------------------------------- POST /admin/users/:userId/add-balance
\* line 167: typeof amount !== 'number' || amount <= 0 is rejected
ValidAmountAllowsNegative(amount) == amount.isNum /\ amount.val # 0
ValidAmountAllowsZero(amount) == amount.isNum /\ amount.val >= 0
ValidAmount(amount) == amount.isNum /\ amount.val > 0

InFlight(p) == pc[p] \notin {"idle", "done"}

\* line 168: findByIdAndUpdate(userId, { $inc: { balance: amount } })
AddBalance(u, amount) ==
    /\ IF ValidAmount(amount)
       THEN /\ balance[u] + amount.val <= MaxBalance
            /\ balance' = [balance EXCEPT ![u] = @ + amount.val]
            /\ last' = Answer("add-balance", 200)                 \* line 169
       ELSE /\ UNCHANGED balance
            /\ last' = Answer("add-balance", 400)                 \* line 167
    /\ UNCHANGED <<campaigns, contactDocs, fromNumberBlocklist, now>>
    /\ UNCHANGED locals

\* ------------------------------------------------ /admin/settings/blocklist
\* line 177: $addToSet appends the number unless it is present
AddToSetAppends(list, n) == Append(list, n)
AddToSet(list, n) == IF n \in Range(list) THEN list ELSE Append(list, n)
\* line 182: $pull removes every occurrence
PullAll(list, n) == <<>>
Pull(list, n) == SelectSeq(list, LAMBDA x : x # n)

\* line 177: { $each: numbersToAdd } adds them one after the other
RECURSIVE AddEachToSet(_, _)
AddEachToSet(list, items) ==
    IF items = <<>> THEN list
    ELSE AddEachToSet(AddToSet(list, Head(items)), Tail(items))

\* line 176: numbers ? numbers.split(',').map(n => n.trim()).filter(n => n) : []
NumbersToAdd(numbers) ==
    IF numbers = <<>> THEN <<>>
    ELSE LET pieces == Split(numbers, ",")
         IN Truthy([i \in 1..Len(pieces) |-> Trim(pieces[i])])

\* lines 175-179: POST /admin/settings/blocklist
AddBlocklist(numbers) ==
    /\ fromNumberBlocklist' = AddEachToSet(fromNumberBlocklist, NumbersToAdd(numbers))
    /\ last' = Answer("blocklist-add", 200)
    /\ UNCHANGED <<balance, campaigns, contactDocs, now>>
    /\ UNCHANGED locals

\* lines 180-184: DELETE /admin/settings/blocklist
RemoveBlocklist(n) ==
    /\ fromNumberBlocklist' = Pull(fromNumberBlocklist, n)
    /\ last' = Answer("blocklist-remove", 200)
    /\ UNCHANGED <<balance, campaigns, contactDocs, now>>
    /\ UNCHANGED locals

\* ------------------------------------------------------------ isTextFlagged
\* lines 99-110: the classifier flags when it is configured, the call went
\* through, the response is ok and carries scores, and a score is above the
\* threshold; an exception is caught and logged
ClassifierFlags(classifier) ==
    /\ classifier.kind = "scores"
    /\ \E a \in Attributes : classifier.scores[a] > SPAM_THRESHOLD

\* \b: one side is a word character and the other is not
IsWordAt(text, k) == k \in 1..Len(text) /\ text[k] \in WordChars
WordBoundary(text, k) == IsWordAt(text, k) # IsWordAt(text, k + 1)

\* a pattern character under the flag 'i': "." is any character, another
\* character is itself in either case
CharMatches(p, c) == p = "." \/ LowerChar(p) = LowerChar(c)

\* line 114-115: new RegExp(`\\b${pattern}\\b`, 'i').test(text)
RegExpTest(pattern, text) ==
    \E i \in 1..(Len(text) + 1) :
        /\ i + Len(pattern) - 1 <= Len(text)
        /\ WordBoundary(text, i - 1)
        /\ \A k \in 1..Len(pattern) : CharMatches(pattern[k], text[i + k - 1])
        /\ WordBoundary(text, i + Len(pattern) - 1)

\* lines 98-118
IsTextFlagged(text, customBlocklist, classifier) ==
    IF ClassifierFlags(classifier) THEN TRUE
    ELSE LET lowerCaseText == ToLowerCase(text)
         IN \E i \in 1..Len(customBlocklist) :
                RegExpTest(Trim(customBlocklist[i]), lowerCaseText)

\* line 188: customBlocklist ? customBlocklist.split(',')
\*               .map(w => w.trim().toLowerCase()).filter(Boolean) : []
BlocklistArray(customBlocklist) ==
    IF customBlocklist = <<>> THEN <<>>
    ELSE LET pieces == Split(customBlocklist, ",")
         IN Truthy([i \in 1..Len(pieces) |-> ToLowerCase(Trim(pieces[i]))])

\* ------------------------------------------------------------ POST /campaigns
\* line 78: callsPerMinute { min: 1, max: 100 }, validated by campaign.save()
ValidCallsPerMinute(cpm) == cpm >= MinCallsPerMinute /\ cpm <= MaxCallsPerMinute

\* line 192: new Campaign({ ...req.body, user }): isActive is taken from the
\* body when the body has it, and is the schema default (false) otherwise
IsActiveOf(isActiveIn) == isActiveIn = "true"

\* line 70 and 193: insertMany(..., { ordered: false }) under the unique index
\* (phoneNumber, campaign) stores the first document of every phone number
RECURSIVE FirstOccurrences(_, _)
FirstOccurrences(phones, seen) ==
    IF phones = <<>> THEN <<>>
    ELSE IF Head(phones) \in seen
         THEN FirstOccurrences(Tail(phones), seen)
         ELSE <<Head(phones)>> \o FirstOccurrences(Tail(phones), seen \cup {Head(phones)})

ContactDoc(phone, id) == [phoneNumber |-> phone, campaign |-> id, status |-> "new"]

\* line 191: settings.fromNumberBlocklist.includes(fromNumber)
IsBlockedNever(fromNumber) == FALSE
IsBlocked(fromNumber) == fromNumber \in Range(fromNumberBlocklist)

CreateCampaign(u, fromNumber, flagged, isActiveIn, cpm, contactsData) ==
    /\ Len(campaigns) < MaxCampaigns
    /\ IF flagged                                              \* line 189: 400
          \/ IsBlocked(fromNumber)                             \* line 191: 403
          \/ ~ValidCallsPerMinute(cpm)                         \* line 192 throws: 500
       THEN /\ UNCHANGED <<campaigns, contactDocs>>
            /\ last' = Answer("campaigns",
                            IF flagged THEN 400
                            ELSE IF IsBlocked(fromNumber) THEN 403 ELSE 500)
       ELSE LET id == Len(campaigns) + 1
                stored == FirstOccurrences(contactsData, {})
                ids == [i \in 1..Len(stored) |-> Len(contactDocs) + i]
                \* line 193 throws code 11000 on a duplicate: line 194 is skipped
                refs == IF Len(stored) = Len(contactsData) THEN ids ELSE <<>>
            IN /\ campaigns' = Append(campaigns,
                        [user |-> u, isActive |-> IsActiveOf(isActiveIn),
                         callsPerMinute |-> cpm, contacts |-> refs,
                         lastBatchFetchTime |-> 0])
               /\ contactDocs' = contactDocs \o [i \in 1..Len(stored) |-> ContactDoc(stored[i], id)]
               \* line 194: 201; line 195: 409 for the code 11000
               /\ last' = Answer("campaigns",
                               IF Len(stored) = Len(contactsData) THEN 201 ELSE 409)
    /\ UNCHANGED <<balance, fromNumberBlocklist, now>>
    /\ UNCHANGED locals

\* --------------------------------- GET /campaigns/:id/next-contacts/:count
\* line 200: const user = await User.findById(req.user.id)
ReadUser(p, u, id, count) ==
    /\ pc[p] = "idle"
    /\ pc' = [pc EXCEPT ![p] = "check"]
    /\ req' = [req EXCEPT ![p] = [user |-> u, id |-> id, count |-> count]]
    /\ userRead' = [userRead EXCEPT ![p] = balance[u]]
    /\ userMem' = [userMem EXCEPT ![p] = balance[u]]
    /\ UNCHANGED <<balance, campaigns, contactDocs, fromNumberBlocklist, now,
                   charged, found, result>>
    /\ UNCHANGED last

Finished(p, r) ==
    /\ pc' = [pc EXCEPT ![p] = "done"]
    /\ result' = [result EXCEPT ![p] = r]

\* line 203: balance too low: pause the campaign named in the URL, answer 402
AutoPause(p) ==
    /\ pc[p] = "check"
    /\ InsufficientBalance(userMem[p], RequiredBalance(req[p].count))
    /\ campaigns' = IF CampaignExists(req[p].id)
                    THEN [campaigns EXCEPT ![req[p].id] = Paused(@)]
                    ELSE campaigns
    /\ Finished(p, Response("insufficient", <<>>, 0))
    /\ UNCHANGED <<balance, contactDocs, fromNumberBlocklist, now, req, userRead,
                   userMem, charged, found>>
    /\ UNCHANGED last

\* lines 204-205: the caller's campaign, which must be active
FindCampaign(p) ==
    /\ pc[p] = "check"
    /\ ~InsufficientBalance(userMem[p], RequiredBalance(req[p].count))
    /\ IF FindOwned(req[p].id, req[p].user) /\ campaigns[req[p].id].isActive
       THEN /\ pc' = [pc EXCEPT ![p] = "save"]
            /\ UNCHANGED result
       ELSE Finished(p, Response("inactive", <<>>, 0))
    /\ UNCHANGED <<balance, campaigns, contactDocs, fromNumberBlocklist, now, req,
                   userRead, userMem, charged, found>>
    /\ UNCHANGED last

\* line 206: user.balance -= requiredBalance
Debited(bal, required) == bal - required

\* line 206: await user.save() writes the in-memory balance ($set)
SaveUser(p) ==
    /\ pc[p] = "save"
    /\ LET nb == Debited(userMem[p], RequiredBalance(req[p].count))
       IN /\ nb <= MaxBalance
          /\ userMem' = [userMem EXCEPT ![p] = nb]
          /\ balance' = [balance EXCEPT ![req[p].user] = nb]
          /\ charged' = [charged EXCEPT ![p] = userMem[p] - nb]
    /\ pc' = [pc EXCEPT ![p] = "find"]
    /\ UNCHANGED <<campaigns, contactDocs, fromNumberBlocklist, now, req, userRead,
                   found, result>>
    /\ UNCHANGED last

\* lines 207-208
FindContacts(p) ==
    /\ pc[p] = "find"
    /\ LET contacts == FindNewContacts(req[p].id, BatchSize(req[p].count))
       IN /\ found' = [found EXCEPT ![p] = contacts]
          /\ IF Len(contacts) = 0
             THEN Finished(p, Response("exhausted", <<>>, 0))
             ELSE /\ pc' = [pc EXCEPT ![p] = "stamp"]
                  /\ UNCHANGED result
    /\ UNCHANGED <<balance, campaigns, contactDocs, fromNumberBlocklist, now, req,
                   userRead, userMem, charged>>
    /\ UNCHANGED last

\* line 209: campaign.lastBatchFetchTime = new Date(); campaign.save() writes
\* the modified path only; then the contacts and the balance are sent
SaveCampaign(p) ==
    /\ pc[p] = "stamp"
    /\ now < MaxClock
    /\ now' = now + 1
    /\ campaigns' = [campaigns EXCEPT ![req[p].id].lastBatchFetchTime = now + 1]
    /\ Finished(p, Response("ok", found[p], userMem[p]))
    /\ UNCHANGED <<balance, contactDocs, fromNumberBlocklist, req, userRead, userMem,
                   charged, found>>
    /\ UNCHANGED last

\* line 210: a store operation of lines 206-209 throws: 500, nothing undone
\* (when it is the user.save() of line 206, the balance was lowered in memory only)
StoreFault(p) ==
    /\ pc[p] \in {"save", "find", "stamp"}
    /\ userMem' = [userMem EXCEPT ![p] =
            IF pc[p] = "save" THEN Debited(@, RequiredBalance(req[p].count)) ELSE @]
    /\ Finished(p, Response("error", <<>>, 0))
    /\ UNCHANGED <<balance, campaigns, contactDocs, fromNumberBlocklist, now, req,
                   userRead, charged, found>>
    /\ UNCHANGED last

\* the response is out and the handler's locals are gone
Forget(p) ==
    /\ pc[p] = "done"
    /\ pc' = [pc EXCEPT ![p] = "idle"]
    /\ req' = [req EXCEPT ![p] = NoReq]
    /\ userRead' = [userRead EXCEPT ![p] = 0]
    /\ userMem' = [userMem EXCEPT ![p] = 0]
    /\ charged' = [charged EXCEPT ![p] = 0]
    /\ found' = [found EXCEPT ![p] = <<>>]
    /\ result' = [result EXCEPT ![p] = NoResult]
    /\ UNCHANGED <<balance, campaigns, contactDocs, fromNumberBlocklist, now>>
    /\ UNCHANGED last

\* ------------------------------------------------------------------ Next
Next ==
    \/ \E u \in Callers, amount \in AmountInputs : AddBalance(u, amount) /\ UNCHANGED environment
    \/ \E u \in Users, fromNumber \in Numbers, flagged \in BOOLEAN,
          isActiveIn \in IsActiveInputs, cpm \in CpmInputs,
          contactsData \in ContactInputs :
            CreateCampaign(u, fromNumber, flagged, isActiveIn, cpm, contactsData) /\ UNCHANGED environment
    \/ \E p \in Procs, u \in Callers, id \in 1..MaxCampaigns, count \in CountInputs :
            ReadUser(p, u, id, count) /\ UNCHANGED environment
    \/ \E p \in Procs : AutoPause(p) /\ UNCHANGED environment
    \/ \E p \in Procs : FindCampaign(p) /\ UNCHANGED environment
    \/ \E p \in Procs : SaveUser(p) /\ UNCHANGED environment
    \/ \E p \in Procs : FindContacts(p) /\ UNCHANGED environment
    \/ \E p \in Procs : SaveCampaign(p) /\ UNCHANGED environment
    \/ \E p \in Procs : StoreFault(p) /\ UNCHANGED environment
    \/ \E p \in Procs : Forget(p) /\ UNCHANGED environment

Spec == Init /\ [][Next]_vars

\* Two handlers, one request each, on accounts that hold some balance and are
\* not credited meanwhile: whatever the balance does is the handlers' doing.
InitFunded ==
    /\ balance \in {b \in [Users -> {n * CALL_COST : n \in 0..MaxFunds}] :
                        \A u \in Users \ Callers : b[u] = 0}
    /\ campaigns = <<>>
    /\ contactDocs = <<>>
    /\ fromNumberBlocklist = <<>>
    /\ now = 0
    /\ pc = [p \in Procs |-> "idle"]
    /\ req = [p \in Procs |-> NoReq]
    /\ userRead = [p \in Procs |-> 0]
    /\ userMem = [p \in Procs |-> 0]
    /\ charged = [p \in Procs |-> 0]
    /\ found = [p \in Procs |-> <<>>]
    /\ result = [p \in Procs |-> NoResult]
    /\ last = NoAnswer
    /\ asked = NoQuestion
    /\ edits = [n \in BlockedNumbers |-> "none"]
    /\ initialBlocklist = <<>>
    /\ moderation = NoModeration

NextRace ==
    \/ \E u \in Users, fromNumber \in Numbers, flagged \in BOOLEAN,
          isActiveIn \in IsActiveInputs, cpm \in CpmInputs,
          contactsData \in ContactInputs :
            CreateCampaign(u, fromNumber, flagged, isActiveIn, cpm, contactsData) /\ UNCHANGED environment
    \/ \E p \in Procs, u \in Callers, id \in 1..MaxCampaigns, count \in CountInputs :
            ReadUser(p, u, id, count) /\ UNCHANGED environment
    \/ \E p \in Procs : AutoPause(p) /\ UNCHANGED environment
    \/ \E p \in Procs : FindCampaign(p) /\ UNCHANGED environment
    \/ \E p \in Procs : SaveUser(p) /\ UNCHANGED environment
    \/ \E p \in Procs : FindContacts(p) /\ UNCHANGED environment
    \/ \E p \in Procs : SaveCampaign(p) /\ UNCHANGED environment
    \/ \E p \in Procs : StoreFault(p) /\ UNCHANGED environment

SpecRace == InitFunded /\ [][NextRace]_vars

\* ------------------------------------------------------------ administration
\* Admins credit accounts and edit the blocklist while accounts create
\* campaigns, whose message goes through isTextFlagged (line 189).
AdminTexts == {<<"a">>}
AdminWordLists == {<<>>, <<"a">>}
AdminClassifiers == {FetchThrows, Scored([a \in Attributes |-> 9])}
AdminIsActive == {"absent"}
AdminCpm == {0, 1}
AdminContacts == {<<"p1">>, <<"p1", "p1">>}
Question(body) == [body |-> body, blocklist |-> fromNumberBlocklist]

NextAdmin ==
    \/ \E u \in Users, amount \in AmountInputs :
            /\ AddBalance(u, amount)
            /\ asked' = Question(amount)
            /\ UNCHANGED <<edits, initialBlocklist, moderation>>
    \/ \E numbers \in NumbersInputs :
            /\ AddBlocklist(numbers)
            /\ asked' = Question(numbers)
            /\ UNCHANGED <<edits, initialBlocklist, moderation>>
    \/ \E n \in BlockedNumbers :
            /\ RemoveBlocklist(n)
            /\ asked' = Question(n)
            /\ UNCHANGED <<edits, initialBlocklist, moderation>>
    \/ \E u \in Callers, fromNumber \in BlockedNumbers, ttsMessage \in AdminTexts,
          customBlocklist \in AdminWordLists, classifier \in AdminClassifiers,
          isActiveIn \in AdminIsActive, cpm \in AdminCpm,
          contactsData \in AdminContacts :
            LET flagged == IsTextFlagged(ttsMessage, BlocklistArray(customBlocklist),
                                         classifier)
            IN /\ CreateCampaign(u, fromNumber, flagged, isActiveIn, cpm, contactsData)
               /\ asked' = Question([fromNumber |-> fromNumber, flagged |-> flagged])
            /\ UNCHANGED <<edits, initialBlocklist, moderation>>

SpecAdmin == Init /\ [][NextAdmin]_vars

\* ------------------------------------------------- concurrent blocklist edits
\* Admins have sent at most one request per number, to add it or to remove
\* it, to a blocklist that holds some numbers; the store runs the
\* findOneAndUpdate of each request (lines 177 and 182) in whatever order.
NoDuplicates(list) == \A i, j \in 1..Len(list) : list[i] = list[j] => i = j
Blocklists ==
    {l \in UNION {[1..n -> BlockedNumbers] : n \in 0..Cardinality(BlockedNumbers)} :
        NoDuplicates(l)}

InitBlocklist ==
    /\ balance = [u \in Users |-> 0]
    /\ campaigns = <<>>
    /\ contactDocs = <<>>
    /\ initialBlocklist \in Blocklists
    /\ fromNumberBlocklist = initialBlocklist
    /\ now = 0
    /\ pc = [p \in Procs |-> "idle"]
    /\ req = [p \in Procs |-> NoReq]
    /\ userRead = [p \in Procs |-> 0]
    /\ userMem = [p \in Procs |-> 0]
    /\ charged = [p \in Procs |-> 0]
    /\ found = [p \in Procs |-> <<>>]
    /\ result = [p \in Procs |-> NoResult]
    /\ last = NoAnswer
    /\ asked = NoQuestion
    /\ edits \in [BlockedNumbers -> {"none", "add", "remove"}]
    /\ moderation = NoModeration

NextBlocklist ==
    \/ \E n \in BlockedNumbers :
            /\ edits[n] = "add"
            /\ AddBlocklist(n)
            /\ edits' = [edits EXCEPT ![n] = "added"]
            /\ UNCHANGED <<asked, initialBlocklist, moderation>>
    \/ \E n \in BlockedNumbers :
            /\ edits[n] = "remove"
            /\ RemoveBlocklist(n)
            /\ edits' = [edits EXCEPT ![n] = "removed"]
            /\ UNCHANGED <<asked, initialBlocklist, moderation>>

SpecBlocklist == InitBlocklist /\ [][NextBlocklist]_vars

\* ---------------------------------------------------------------- moderation
\* A message, the customBlocklist of its request and what the classifier
\* call comes to, put through line 188 and isTextFlagged.
InitModeration ==
    /\ balance = [u \in Users |-> 0]
    /\ campaigns = <<>>
    /\ contactDocs = <<>>
    /\ fromNumberBlocklist = <<>>
    /\ now = 0
    /\ pc = [p \in Procs |-> "idle"]
    /\ req = [p \in Procs |-> NoReq]
    /\ userRead = [p \in Procs |-> 0]
    /\ userMem = [p \in Procs |-> 0]
    /\ charged = [p \in Procs |-> 0]
    /\ found = [p \in Procs |-> <<>>]
    /\ result = [p \in Procs |-> NoResult]
    /\ last = NoAnswer
    /\ asked = NoQuestion
    /\ edits = [n \in BlockedNumbers |-> "none"]
    /\ initialBlocklist = <<>>
    /\ moderation \in [text : Texts, customBlocklist : CustomBlocklistInputs,
                        classifier : ClassifierInputs, verdict : {"pending"}]

Evaluate ==
    /\ moderation.verdict = "pending"
    /\ moderation' = [moderation EXCEPT !.verdict =
            IF IsTextFlagged(moderation.text,
                             BlocklistArray(moderation.customBlocklist),
                             moderation.classifier)
            THEN "flagged" ELSE "clean"]
    /\ UNCHANGED <<store, now, locals, last, asked, edits, initialBlocklist>>

NextModeration == Evaluate

SpecModeration == InitModeration /\ [][NextModeration]_vars

TypeOK ==
    /\ \A u \in Users : balance[u] \in Int
    /\ pc \in [Procs -> {"idle", "check", "save", "find", "stamp", "done"}]

\* ============================================================== properties
Done(p) == pc[p] = "done"
Ok(p) == Done(p) /\ result[p].kind = "ok"
Stepped(p) == pc'[p] # pc[p]
\* the requested count is a positive integer
PositiveCount(count) == count.isNum /\ count.val >= 1
\* ... that the campaign's batch-size policy (callsPerMinute) admits
AcceptableCount(r) ==
    /\ PositiveCount(r.count)
    /\ CampaignExists(r.id) => r.count.val <= campaigns[r.id].callsPerMinute

\* C1: in every reachable state the stored balance of every account is >= 0,
\* whatever next-contacts and add-balance requests ran, in whatever interleaving.
C1_BalanceNonNegative == \A u \in Users : balance[u] >= 0

\* C1 witness: two handlers of one account have both debited it (one was
\* credited balance, two debits) and the stored balance stands at zero.
C1_Witness ==
    \E p, q \in Procs :
        /\ p # q /\ req[p].user = req[q].user
        /\ charged[p] > 0 /\ charged[q] > 0
        /\ balance[req[p].user] = 0

\* C2 (as claimed): two concurrent calls (with acceptable counts) on one
\* account whose balance covers each batch but not both: exactly one returns contacts, the other is
\* answered insufficient funds, and the balance is down by that one debit.
\* Under SpecRace nothing but the two calls changes the balance, so two calls
\* that read the same balance B ran concurrently from balance B.
C2_ExactlyOneSucceeds ==
    \A p, q \in Procs :
        ( /\ p # q /\ Done(p) /\ Done(q)
          /\ req[p].user = req[q].user
          /\ AcceptableCount(req[p]) /\ AcceptableCount(req[q])
          /\ userRead[p] = userRead[q]
          /\ RequiredBalance(req[p].count) > 0 /\ RequiredBalance(req[q].count) > 0
          /\ RequiredBalance(req[p].count) <= userRead[p]
          /\ RequiredBalance(req[q].count) <= userRead[q]
          /\ userRead[p] < RequiredBalance(req[p].count) + RequiredBalance(req[q].count)
          /\ Ok(p)
          /\ result[q].kind \notin {"inactive", "exhausted", "error"} )
        => /\ result[q].kind = "insufficient"
           /\ balance[req[p].user] = userRead[p] - RequiredBalance(req[p].count)

\* C3 (as claimed): the contacts returned by two successful calls (with
\* acceptable counts) on the same campaign are disjoint.
C3_NoContactTwice ==
    \A p, q \in Procs :
        ( /\ p # q /\ Ok(p) /\ Ok(q) /\ req[p].id = req[q].id
          /\ AcceptableCount(req[p]) /\ AcceptableCount(req[q]) )
        => Range(result[p].contacts) \cap Range(result[q].contacts) = {}

\* C4 (as claimed): a successful call with an acceptable count has taken exactly CALL_COST times the
\* number of contacts it returns off the balance, and reports that balance.
C4_ChargesPerReturnedContact ==
    \A p \in Procs :
        (Ok(p) /\ AcceptableCount(req[p]))
        => /\ charged[p] = CALL_COST * Len(result[p].contacts)
           /\ result[p].newBalance = userRead[p] - CALL_COST * Len(result[p].contacts)

\* C5 (as claimed): the step that answers a call with an acceptable count
\* "no contacts left" gives back what the call debited, so that the call
\* leaves the balance as it was.
C5_ExhaustedRefunds ==
    [][\A p \in Procs :
         (Stepped(p) /\ AcceptableCount(req[p]) /\ result'[p].kind = "exhausted")
         => balance'[req[p].user] = balance[req[p].user] + charged[p]]_vars

\* C6: a call whose positive requested count the balance read does not cover
\* (balance < CALL_COST x count) is answered insufficient funds in its next
\* step, with no contacts; that step leaves every balance unchanged and the
\* campaign named in the request inactive.
C6_InsufficientFundsPauses ==
    [][\A p \in Procs :
         ( /\ pc[p] = "check" /\ Stepped(p)
           /\ PositiveCount(req[p].count)
           /\ userRead[p] < CALL_COST * req[p].count.val )
         => /\ pc'[p] = "done"
            /\ result'[p].kind = "insufficient"
            /\ result'[p].contacts = <<>>
            /\ balance' = balance
            /\ charged'[p] = 0
            /\ CampaignExists(req[p].id) => ~campaigns'[req[p].id].isActive]_vars

\* C6 witness: a call for a positive count was answered insufficient funds and
\* the caller's campaign, which has dispatched before, is now paused.
C6_Witness ==
    \E p \in Procs :
        /\ Done(p) /\ result[p].kind = "insufficient"
        /\ PositiveCount(req[p].count)
        /\ userRead[p] < CALL_COST * req[p].count.val
        /\ FindOwned(req[p].id, req[p].user)
        /\ campaigns[req[p].id].lastBatchFetchTime > 0
        /\ ~campaigns[req[p].id].isActive

\* C7 (as claimed): while a campaign is paused, no step of a call on it
\* changes a balance, returns contacts or moves the campaign's last-dispatch
\* time (all the calls around having acceptable counts).
C7_PausedReleasesNothing ==
    [][\A p \in Procs :
         ( /\ InFlight(p) /\ Stepped(p)
           /\ \A q \in Procs : pc[q] # "idle" => AcceptableCount(req[q])
           /\ CampaignExists(req[p].id)
           /\ ~campaigns[req[p].id].isActive )
         => /\ balance' = balance
            /\ result'[p].contacts = <<>>
            /\ campaigns'[req[p].id].lastBatchFetchTime
                 = campaigns[req[p].id].lastBatchFetchTime]_vars

\* C8 (as claimed): a call whose count is not a positive integer within the
\* campaign's callsPerMinute changes nothing in the store and returns no contacts.
C8_BadCountRejected ==
    [][\A p \in Procs :
         (InFlight(p) /\ Stepped(p) /\ ~AcceptableCount(req[p]))
         => /\ balance' = balance
            /\ campaigns' = campaigns
            /\ contactDocs' = contactDocs
            /\ result'[p].kind \notin {"ok", "insufficient", "exhausted"}]_vars

\* C9 (as claimed): the step that surfaces a store failure to a call with an
\* acceptable count gives back what the call debited.
C9_StoreFailureRefunds ==
    [][\A p \in Procs :
         (Stepped(p) /\ AcceptableCount(req[p]) /\ result'[p].kind = "error")
         => balance'[req[p].user] = balance[req[p].user] + charged[p]]_vars

\* C10 (as claimed): whenever a campaign becomes active (on creation or later),
\* its owner's balance at that moment is at least the cost of one call.
C10_ActiveOnlyWithFunds ==
    [][\A id \in 1..Len(campaigns') :
         ( /\ campaigns'[id].isActive
           /\ (id > Len(campaigns) \/ ~campaigns[id].isActive) )
         => balance[campaigns'[id].user] >= CALL_COST]_vars

\* C11 (as claimed): a campaign that has just been created is paused, whatever
\* the request body that created it.
C11_CreatedPaused ==
    [][Len(campaigns') > Len(campaigns)
       => ~campaigns'[Len(campaigns')].isActive]_vars

\* C12 (as claimed): whenever a campaign is paused and its owner's balance
\* covers one call, some request the API offers makes that campaign active.
C12_PausedCanRestart ==
    \A id \in 1..Len(campaigns) :
        (~campaigns[id].isActive /\ balance[campaigns[id].user] >= CALL_COST)
        => ENABLED (Next /\ campaigns'[id].isActive)

\* C18 (as claimed): the stored balance only ever moves by a credit's amount
\* or by a call's debit, so that at rest it is the initial balance plus the
\* credits minus the debits: the step in which a call (with an acceptable
\* count) saves its debit lowers the stored balance of that moment by exactly
\* that debit, and so keeps every credit and debit made since the call read
\* the balance.
C18_DebitKeepsConcurrentWrites ==
    [][\A p \in Procs :
         (pc[p] = "save" /\ pc'[p] = "find" /\ AcceptableCount(req[p]))
         => balance'[req[p].user]
              = balance[req[p].user] - RequiredBalance(req[p].count)]_vars

\* C19 (as claimed): no step of a call (with an acceptable count) made by an
\* account that does not own the campaign named in the request changes that
\* campaign.
C19_OnlyOwnerTouchesCampaign ==
    [][\A p \in Procs :
         ( /\ InFlight(p) /\ Stepped(p)
           /\ AcceptableCount(req[p])
           /\ CampaignExists(req[p].id)
           /\ campaigns[req[p].id].user # req[p].user )
         => campaigns'[req[p].id] = campaigns[req[p].id]]_vars

\* the contacts stored for a campaign
ContactsOf(id) == {i \in 1..Len(contactDocs) : contactDocs[i].campaign = id}

\* C20 (as claimed): creation is all or nothing, so every persisted campaign
\* references exactly the contacts that were stored for it.
C20_CampaignOwnsItsContacts ==
    \A id \in 1..Len(campaigns) : Range(campaigns[id].contacts) = ContactsOf(id)

\* C13 (as claimed): a credit of a numeric amount that is not negative is
\* answered with success and raises the stored balance by the amount; a credit
\* of a negative or non-numeric amount is rejected and changes no balance.
C13_CreditNonNegative ==
    [][\A u \in Users, amount \in AmountInputs :
         AddBalance(u, amount)
         => IF amount.isNum /\ amount.val >= 0
            THEN last'.status = 200 /\ balance' = [balance EXCEPT ![u] = @ + amount.val]
            ELSE last'.status = 400 /\ balance' = balance]_vars

\* C13 (amended): a credit of a numeric amount above zero is answered with
\* success and raises the stored balance of the account by the amount, leaving
\* the other accounts alone; a credit of zero, of a negative amount or of a
\* non-numeric amount is rejected and changes no balance.
C13_CreditPositive ==
    [][\A u \in Users, amount \in AmountInputs :
         AddBalance(u, amount)
         => IF amount.isNum /\ amount.val > 0
            THEN last'.status = 200 /\ balance' = [balance EXCEPT ![u] = @ + amount.val]
            ELSE last'.status = 400 /\ balance' = balance]_vars

\* C13 witness: a credit of zero has just been rejected on a system where a
\* credit had succeeded.
C13_Witness ==
    /\ last = Answer("add-balance", 400)
    /\ asked.body = Num(0)
    /\ \E u \in Users : balance[u] > 0

\* C14: a creation request whose message is flagged, or whose From Number is
\* in the global blocklist, is answered 400 or 403 and changes nothing in the
\* store: no campaign, no contact, no balance, no blocklist entry.
C14_PolicyRejectionPersistsNothing ==
    [][( /\ last'.route = "campaigns"
         /\ \/ asked'.body.flagged
            \/ asked'.body.fromNumber \in Range(fromNumberBlocklist) )
       => /\ last'.status \in {400, 403}
          /\ store' = store]_vars

\* C14 witness: a creation with a blocked From Number has just been refused,
\* and the collections are empty.
C14_Witness ==
    /\ last = Answer("campaigns", 403)
    /\ ~asked.body.flagged
    /\ asked.body.fromNumber \in Range(fromNumberBlocklist)
    /\ campaigns = <<>> /\ contactDocs = <<>>

\* C15: the blocklist never holds a number twice, and an add request whose
\* numbers are all present leaves the blocklist as it was.
C15_AddIdempotent ==
    /\ [](NoDuplicates(fromNumberBlocklist))
    /\ [][\A numbers \in NumbersInputs :
            ( /\ AddBlocklist(numbers)
              /\ Range(NumbersToAdd(numbers)) \subseteq Range(fromNumberBlocklist) )
            => fromNumberBlocklist' = fromNumberBlocklist]_vars

\* C15 witness: one request has added the same number twice to the empty
\* blocklist, which now has size 1.
C15_Witness ==
    /\ last = Answer("blocklist-add", 200)
    /\ asked.body = <<"1", ",", "1">>
    /\ asked.blocklist = <<>>
    /\ Len(fromNumberBlocklist) = 1

\* the edits that are through
Added == {n \in BlockedNumbers : edits[n] = "added"}
Removed == {n \in BlockedNumbers : edits[n] = "removed"}
Settled == \A n \in BlockedNumbers : edits[n] \notin {"add", "remove"}

\* C16: in whatever order concurrent add and remove requests on distinct
\* numbers are applied, the blocklist holds the initial numbers plus the
\* added ones minus the removed ones: at every moment for the requests that
\* are through, and so at the end for all of them.
C16_NoEditLost ==
    Range(fromNumberBlocklist) = (Range(initialBlocklist) \cup Added) \ Removed

\* C16 witness: all the requests are through; a number that was absent has
\* been added, a number that was present has been removed and a third number
\* was present all along.
C16_Witness ==
    /\ Settled
    /\ \E n \in Added : n \notin Range(initialBlocklist)
    /\ \E n \in Removed : n \in Range(initialBlocklist)
    /\ \E n \in Range(initialBlocklist) : edits[n] = "none"

\* the text has the word between two word boundaries, in whatever case
ContainsWholeWord(text, word) ==
    \E i \in 1..Len(text) :
        /\ i + Len(word) - 1 <= Len(text)
        /\ WordBoundary(text, i - 1)
        /\ \A k \in 1..Len(word) : LowerChar(word[k]) = LowerChar(text[i + k - 1])
        /\ WordBoundary(text, i + Len(word) - 1)

\* C17 (as claimed): the verdict is "flagged" exactly when the classifier
\* flagged the text or the text contains, as a whole word, a word of the
\* custom list; a classifier that fails counts as not flagging.
C17_FlaggedIsClassifierOrWordList ==
    moderation.verdict \in {"flagged", "clean"}
    => ( moderation.verdict = "flagged"
         <=> \/ ClassifierFlags(moderation.classifier)
             \/ \E w \in Range(BlocklistArray(moderation.customBlocklist)) :
                    ContainsWholeWord(moderation.text, w) )

====
